---- MODULE Spec2Model ----
(***************************************************************************)
(* Model of Networks.py: construction of the SensorimotorPredictiveNetwork *)
(* graph (mlp, variable scopes, optimizer, saver) and the full_train       *)
(* training run (display process, session, training cycles, tracking,      *)
(* checkpointing).                                                         *)
(***************************************************************************)
EXTENDS Integers, Sequences, FiniteSets, TLC

VARIABLES
    \* ---- constructor arguments and the graph built by __init__
    act_fn,                  \* the act_fn argument (self.activation)
    encoding_layers_size,    \* self.encoding_layers_size
    predictive_layers_size,  \* self.predictive_layers_size
    activation,              \* the local `activation` chosen in __init__
    warned,                  \* the WARNING line has been printed
    store,                   \* the graph's global variables (name, shape, trainable)
    enc_t,                   \* layers of the encoder copy fed by motor_t
    enc_tp,                  \* layers of the encoder copy fed by motor_tp
    pred,                    \* layers of the predictive module
    saver_vars,              \* names of the variables self.saver saves
    \* ---- full_train arguments
    n_epochs, disp, platform, save_frames,
    \* ---- control and environment
    pc,                      \* position in __init__ / full_train
    exc,                     \* exception that left the call, "none" otherwise
    sess,                    \* self.sess: "none", "open" or "closed"
    display_proc,            \* local display_proc: "unbound", "running", "killed"
    spawned,                 \* number of display processes started
    killed,                  \* number of display processes killed
    \* ---- session state (values of the graph variables)
    global_step,             \* value of self.global_step
    params,                  \* number of updates applied to the trainable parameters
    adam_t,                  \* number of updates applied to the optimizer slots
    \* ---- locals of full_train / train
    epoch, k, current_loss, index,
    nan_cycle,               \* training cycle in which the loss first was NaN, -1 if never
    \* ---- artifacts on disk
    summaries,               \* tb_logs: sequence of the steps the summaries were keyed by
    display_data,            \* display_data.pkl: "epoch" field, -1 when absent
    ckpt,                    \* model.ckpt
    n_saves,                 \* number of completed save_network calls
    frames,                  \* number of frames written
    video,                   \* the training video has been compiled
    \* ---- calls outside of __init__ and full_train
    sv,                      \* a call of save(destination)
    lr,                      \* the learning-rate schedule read at a value of global_step
    af,                      \* a call of compute_weighted_affine_errors_in_P
    gen                      \* a call of generate_sensorimotor_data

net_vars == <<act_fn, encoding_layers_size, predictive_layers_size, activation, warned,
              store, enc_t, enc_tp, pred, saver_vars>>
arg_vars == <<n_epochs, disp, platform, save_frames>>
run_vars == <<sess, display_proc, spawned, killed, global_step, params, adam_t,
              epoch, k, current_loss, index, nan_cycle,
              summaries, display_data, ckpt, n_saves, frames, video>>
ext_vars == <<sv, lr, af, gen>>
vars == <<net_vars, arg_vars, run_vars, pc, exc, ext_vars>>

-----------------------------------------------------------------------------
(* Bounds of the model *)
MaxHidden == 2        \* longest list of hidden-layer sizes given to __init__
MaxHalfCycles == 3    \* n_epochs ranges over the multiples of HalfCycle, from -1 up to this many

(* Program constants *)
number_epochs == 1000 \* train(data=data, number_epochs=1000)
dim_motor == 3
dim_sensor == 4
dim_enc == 3

HalfCycle == number_epochs \div 2
Widths == {100, 150}
ActFns == {"selu", "relu", "tanh"}
Platforms == {"Windows", "Linux", "Darwin"}

DefaultEncoding == <<150, 100, 50>>
DefaultPredictive == <<200, 150, 100>>

RECURSIVE SeqsUpTo(_, _)
SeqsUpTo(S, n) ==
    IF n = 0 THEN {<<>>}
    ELSE LET shorter == SeqsUpTo(S, n - 1)
         IN  shorter \cup {Append(s, x) : s \in {t \in shorter : Len(t) = n - 1}, x \in S}

-----------------------------------------------------------------------------
(* Graph construction: tf.layers.dense under a variable scope, and mlp *)

\* "layer" + str(layer_index), and 'layerend'
LayerName(layer_index) == <<"layer", layer_index>>
LayerEnd == <<"layerend", 0>>

\* a variable name scope/layer/var, followed by the optimizer slot suffix if any
VarName(scope, layer, v) == [scope |-> scope, layer |-> layer, var |-> v, slot |-> ""]

Names(st) == {v.name : v \in st}
ShapeOf(st, name) == (CHOOSE v \in st : v.name = name).shape

\* get_variable under reuse=tf.AUTO_REUSE: an existing name is reused (its shape
\* must agree), a new name creates a trainable variable
GetVariable(g, name, shape) ==
    IF name \in Names(g.store)
    THEN [g EXCEPT !.ok = g.ok /\ ShapeOf(g.store, name) = shape]
    ELSE [g EXCEPT !.store = g.store \cup {[name |-> name, shape |-> shape, trainable |-> TRUE]}]

\* tf.layers.dense(inputs, units, activation, name) inside variable_scope(scope)
Dense(g, scope, units, act, layer) ==
    LET g1 == GetVariable(g, VarName(scope, layer, "kernel"), <<g.dim, units>>)
        g2 == GetVariable(g1, VarName(scope, layer, "bias"), <<units>>)
    IN  [g2 EXCEPT !.dim = units,
                   !.layers = Append(g.layers,
                                     [name |-> layer, units |-> units, activation |-> act,
                                      kernel |-> VarName(scope, layer, "kernel"),
                                      bias |-> VarName(scope, layer, "bias")])]

RECURSIVE MlpHidden(_, _, _, _, _)
MlpHidden(g, scope, layers_sizes, act, layer_index) ==
    IF layer_index >= Len(layers_sizes) - 1 THEN g
    ELSE MlpHidden(Dense(g, scope, layers_sizes[layer_index + 1], act, LayerName(layer_index)),
                   scope, layers_sizes, act, layer_index + 1)

\* mlp(input_net, layers_sizes, activation) called inside variable_scope(scope);
\* st is the variable store before the call, input_dim the width of input_net
Mlp(st, scope, input_dim, layers_sizes, act) ==
    LET g0 == [store |-> st, dim |-> input_dim, layers |-> <<>>, ok |-> TRUE]
        g1 == MlpHidden(g0, scope, layers_sizes, act, 0)
    IN  Dense(g1, scope, layers_sizes[Len(layers_sizes)], "None", LayerEnd)

\* (mutant) the else branch falls back to the other nonlinearity
SelectActivationOther(a) ==
    IF a = "selu" THEN [activation |-> "selu", warned |-> FALSE]
    ELSE IF a = "relu" THEN [activation |-> "relu", warned |-> FALSE]
    ELSE [activation |-> "relu", warned |-> TRUE]

\* the if / elif / else on self.activation
SelectActivation(a) ==
    IF a = "selu" THEN [activation |-> "selu", warned |-> FALSE]
    ELSE IF a = "relu" THEN [activation |-> "relu", warned |-> FALSE]
    ELSE [activation |-> "selu", warned |-> TRUE]

\* activation received by the mlp call of the predictive module: the call passes
\* no activation argument, so mlp's default tf.nn.selu applies
PredictorActivation(a) == "selu"

EncoderT(st, sizes, act) ==
    Mlp(st, "motor_encoding", dim_motor, sizes \o <<dim_enc>>, act)
\* (mutant) the second copy is built in a scope of its own
EncoderTpOwnScope(st, sizes, act) ==
    Mlp(st, "motor_encoding_1", dim_motor, sizes \o <<dim_enc>>, act)
EncoderTp(st, sizes, act) ==
    Mlp(st, "motor_encoding", dim_motor, sizes \o <<dim_enc>>, act)
Predictor(st, sizes, act) ==
    Mlp(st, "sensory_prediction", dim_enc + dim_enc + dim_sensor, sizes \o <<dim_sensor>>,
        PredictorActivation(act))

Trainable(st) == {v \in st : v.trainable}

GlobalStepName == VarName("", <<"Variable", 0>>, "global_step")
SlotName(name, slot) == [name EXCEPT !.slot = slot]
BetaPower(b) == VarName("", <<b, 0>>, "power")

\* tf.Variable(0, trainable=False)
WithGlobalStep(st) ==
    st \cup {[name |-> GlobalStepName, shape |-> <<>>, trainable |-> FALSE]}

\* AdamOptimizer.minimize: two slots per trainable variable and the two beta powers
WithOptimizer(st) ==
    st \cup {[name |-> SlotName(v.name, s), shape |-> v.shape, trainable |-> FALSE] :
                v \in Trainable(st), s \in {"Adam", "Adam_1"}}
       \cup {[name |-> BetaPower(b), shape |-> <<>>, trainable |-> FALSE] :
                b \in {"beta1_power", "beta2_power"}}

\* (mutant) a saver restricted to the trainable variables
SaverTrainableOnly(st) == Names(Trainable(st))

\* tf.train.Saver() without var_list: every saveable variable of the graph
SaverVarList(st) == Names(st)

-----------------------------------------------------------------------------
(* __init__ , one action per block of the constructor *)

UnchangedRun == UNCHANGED <<arg_vars, run_vars, exc, ext_vars>>

\* lines 70-77
ChooseActivation ==
    /\ pc = "init"
    /\ activation' = SelectActivation(act_fn).activation
    /\ warned' = SelectActivation(act_fn).warned
    /\ pc' = "encoder_t"
    /\ UNCHANGED <<act_fn, encoding_layers_size, predictive_layers_size,
                   store, enc_t, enc_tp, pred, saver_vars>>
    /\ UnchangedRun

BuildFailed(g) == IF g.ok THEN "none" ELSE "ValueError"

\* lines 98-100
BuildEncoderT ==
    /\ pc = "encoder_t"
    /\ LET g == EncoderT(store, encoding_layers_size, activation)
       IN  /\ store' = g.store
           /\ enc_t' = g.layers
           /\ pc' = IF g.ok THEN "encoder_tp" ELSE "raised"
           /\ exc' = BuildFailed(g)
    /\ UNCHANGED <<act_fn, encoding_layers_size, predictive_layers_size, activation, warned,
                   enc_tp, pred, saver_vars, arg_vars, run_vars, ext_vars>>

\* lines 103-105
BuildEncoderTp ==
    /\ pc = "encoder_tp"
    /\ LET g == EncoderTp(store, encoding_layers_size, activation)
       IN  /\ store' = g.store
           /\ enc_tp' = g.layers
           /\ pc' = IF g.ok THEN "predictor" ELSE "raised"
           /\ exc' = BuildFailed(g)
    /\ UNCHANGED <<act_fn, encoding_layers_size, predictive_layers_size, activation, warned,
                   enc_t, pred, saver_vars, arg_vars, run_vars, ext_vars>>

\* lines 108-112
BuildPredictor ==
    /\ pc = "predictor"
    /\ LET g == Predictor(store, predictive_layers_size, activation)
       IN  /\ store' = g.store
           /\ pred' = g.layers
           /\ pc' = IF g.ok THEN "optimizer" ELSE "raised"
           /\ exc' = BuildFailed(g)
    /\ UNCHANGED <<act_fn, encoding_layers_size, predictive_layers_size, activation, warned,
                   enc_t, enc_tp, saver_vars, arg_vars, run_vars, ext_vars>>

\* lines 119-125
BuildOptimizer ==
    /\ pc = "optimizer"
    /\ store' = WithOptimizer(WithGlobalStep(store))
    /\ pc' = "saver"
    /\ UNCHANGED <<act_fn, encoding_layers_size, predictive_layers_size, activation, warned,
                   enc_t, enc_tp, pred, saver_vars>>
    /\ UnchangedRun

\* lines 138-141
BuildSaver ==
    /\ pc = "saver"
    /\ saver_vars' = SaverVarList(store)
    /\ pc' = "constructed"
    /\ UNCHANGED <<act_fn, encoding_layers_size, predictive_layers_size, activation, warned,
                   store, enc_t, enc_tp, pred>>
    /\ UnchangedRun

\* state of the run-time variables before any full_train call
RunInit ==
    /\ sess = "none" /\ display_proc = "unbound" /\ spawned = 0 /\ killed = 0
    /\ global_step = 0 /\ params = 0 /\ adam_t = 0
    /\ epoch = 0 /\ k = 0 /\ current_loss = "None" /\ index = -1 /\ nan_cycle = -1
    /\ summaries = <<>> /\ display_data = -1
    /\ ckpt = [written |-> FALSE, names |-> {}, global_step |-> 0, params |-> 0]
    /\ n_saves = 0 /\ frames = 0 /\ video = FALSE
    /\ exc = "none"

\* no call of save, compute_weighted_affine_errors_in_P or
\* generate_sensorimotor_data is under way, the schedule is not being read
ExtIdle ==
    /\ sv = [pc |-> "idle"] /\ lr = [pc |-> "idle"]
    /\ af = [pc |-> "idle"] /\ gen = [pc |-> "idle"]

\* a call of the constructor with arguments drawn from the bounded sets
InitNet ==
    /\ act_fn \in ActFns
    /\ encoding_layers_size \in SeqsUpTo(Widths, MaxHidden)
    /\ predictive_layers_size \in SeqsUpTo(Widths, MaxHidden)
    /\ activation = "unset" /\ warned = FALSE
    /\ store = {} /\ enc_t = <<>> /\ enc_tp = <<>> /\ pred = <<>> /\ saver_vars = {}
    /\ n_epochs = 0 /\ disp = FALSE /\ platform = "Linux" /\ save_frames = FALSE
    /\ pc = "init"
    /\ RunInit
    /\ ExtIdle

NextNet ==
    \/ ChooseActivation
    \/ BuildEncoderT
    \/ BuildEncoderTp
    \/ BuildPredictor
    \/ BuildOptimizer
    \/ BuildSaver

SpecNet == InitNet /\ [][NextNet]_vars

-----------------------------------------------------------------------------
(* full_train, train, track_progress, save_network *)

Supported(p) == p \in {"Windows", "Linux"}

\* (mutant) the session is left open
SessionExitLeak(s) == s

\* leaving the `with tf.Session() as self.sess` block closes the session,
\* on a normal exit and on an exception alike
SessionExit(s) == IF s = "open" THEN "closed" ELSE s

\* (mutant) the loop test includes the bound
LoopCondInclusive(e, n) == e <= n

\* while epoch < n_epochs
LoopCond(e, n) == e < n

\* (mutant) the loop is also left when the loss is NaN
BreakCondNan(loss) == loss \in {"None", "nan"}

\* if current_loss is None: break
BreakCond(loss) == loss = "None"

\* (mutant) the counter advances twice per optimizer step
MinimizeStepTwice(gs) == gs + 2

\* minimize_op increments global_step once per run
MinimizeStep(gs) == gs + 1

\* (mutant) the telemetry entry replaces the stream instead of extending it
AddSummaryOverwrite(log, curr_epoch) == <<curr_epoch>>

\* summaries_writer.add_summary(curr_summaries, curr_epoch)
AddSummary(log, curr_epoch) == Append(log, curr_epoch)

\* display_dict["epoch"] written to display_data.pkl
DisplayDict(curr_epoch) == curr_epoch

\* (mutant) the checkpoint holds the initial values of the variables
SaverSaveInitial(names, gs, p) ==
    [written |-> TRUE, names |-> names, global_step |-> 0, params |-> 0]

\* self.saver.save(self.sess, dest + '/model.ckpt'): the saver's variables with
\* their current values
SaverSave(names, gs, p) ==
    [written |-> TRUE, names |-> names,
     global_step |-> IF GlobalStepName \in names THEN gs ELSE 0, params |-> p]

\* the loss values a sess.run of self.loss can return: once the parameters hold
\* NaN every later loss is NaN
LossValues(nc) == IF nc >= 0 THEN {"nan"} ELSE {"finite", "nan"}

\* value of a graph variable once the session that held it is closed: the values
\* live in the session, outside of one only the initial value of the graph is left
Released(s, v) == IF s = "open" THEN 0 ELSE v

\* an exception propagates out of full_train: the with block closes the session
\* and the frame of the call, with its locals, is dropped
Raise(e) ==
    /\ pc' = "raised"
    /\ exc' = e
    /\ sess' = SessionExit(sess)
    /\ global_step' = Released(sess, global_step)
    /\ params' = Released(sess, params)
    /\ adam_t' = Released(sess, adam_t)
    /\ epoch' = 0 /\ k' = 0 /\ current_loss' = "None" /\ index' = -1

UnchangedNet == UNCHANGED <<net_vars, arg_vars, ext_vars>>

session_vals == <<global_step, params, adam_t>>
locals == <<epoch, k, current_loss, index>>

\* lines 174-181: the display process is started on Windows and on Linux
StartDisplay ==
    /\ pc = "constructed"
    /\ \/ /\ disp /\ Supported(platform)
          /\ display_proc' = "running"
          /\ spawned' = spawned + 1
          /\ pc' = "session"
          /\ UNCHANGED <<exc, sess, session_vals, locals>>
       \/ /\ disp /\ Supported(platform)
          /\ Raise("PopenError")
          /\ UNCHANGED <<display_proc, spawned>>
       \/ /\ ~(disp /\ Supported(platform))
          /\ pc' = "session"
          /\ UNCHANGED <<exc, sess, session_vals, locals, display_proc, spawned>>
    /\ UNCHANGED <<killed, nan_cycle, summaries, display_data, ckpt, n_saves, frames, video>>
    /\ UnchangedNet

\* line 184
OpenSession ==
    /\ pc = "session"
    /\ sess' = "open"
    /\ pc' = "initialize"
    /\ UNCHANGED <<exc, session_vals, locals, display_proc, spawned, killed, nan_cycle,
                   summaries, display_data, ckpt, n_saves, frames, video>>
    /\ UnchangedNet

\* lines 187-191
InitializeVariables ==
    /\ pc = "initialize"
    /\ \/ /\ global_step' = 0 /\ params' = 0 /\ adam_t' = 0
          /\ epoch' = 0
          /\ pc' = "first_eval"
          /\ UNCHANGED <<exc, sess, k, current_loss, index>>
       \/ Raise("InitError")
    /\ UNCHANGED <<display_proc, spawned, killed, nan_cycle, summaries, display_data, ckpt,
                   n_saves, frames, video>>
    /\ UnchangedNet

\* track_progress (lines 299-352), followed by a move to `next`
TrackProgress(next) ==
    /\ \/ /\ sess = "open"
          /\ summaries' = AddSummary(summaries, global_step)
          /\ display_data' = DisplayDict(global_step)
          /\ pc' = next
          /\ UNCHANGED <<exc, sess, session_vals, locals>>
       \/ \* sess.run or a diagnostic raises (lines 305-327)
          /\ Raise("TrackError")
          /\ UNCHANGED <<summaries, display_data>>
       \/ \* writing display_data.pkl raises (lines 347-350)
          /\ sess = "open"
          /\ summaries' = AddSummary(summaries, global_step)
          /\ Raise("TrackError")
          /\ UNCHANGED display_data
    /\ UNCHANGED <<display_proc, spawned, killed, nan_cycle, ckpt, n_saves, frames, video>>
    /\ UnchangedNet

\* line 194
InitialEvaluation ==
    /\ pc = "first_eval"
    /\ TrackProgress("loop")

\* line 199, and lines 148-149 on entering train
LoopTest ==
    /\ pc = "loop"
    /\ IF LoopCond(epoch, n_epochs)
       THEN /\ pc' = "train"
            /\ current_loss' = "None"
            /\ k' = 0
       ELSE /\ pc' = "final_eval"
            /\ UNCHANGED <<current_loss, k>>
    /\ UNCHANGED <<exc, sess, session_vals, epoch, index, display_proc, spawned, killed,
                   nan_cycle, summaries, display_data, ckpt, n_saves, frames, video>>
    /\ UnchangedNet

\* lines 150-159: one iteration of the loop of train
TrainStep ==
    /\ pc = "train"
    /\ k < number_epochs
    /\ \/ /\ sess = "open"
          /\ \E loss \in LossValues(nan_cycle) :
                /\ current_loss' = loss
                /\ nan_cycle' = IF loss = "nan" /\ nan_cycle < 0
                                THEN global_step \div number_epochs
                                ELSE nan_cycle
          /\ global_step' = MinimizeStep(global_step)
          /\ params' = params + 1
          /\ adam_t' = adam_t + 1
          /\ k' = k + 1
          /\ UNCHANGED <<pc, exc, sess, epoch, index>>
       \/ /\ Raise("TrainError")
          /\ UNCHANGED nan_cycle
    /\ UNCHANGED <<display_proc, spawned, killed, summaries, display_data, ckpt, n_saves,
                   frames, video>>
    /\ UnchangedNet

\* lines 160-162 and the assignment of line 202
TrainReturn ==
    /\ pc = "train"
    /\ k >= number_epochs
    /\ epoch' = global_step
    /\ pc' = "track"
    /\ UNCHANGED <<exc, sess, session_vals, k, current_loss, index, display_proc, spawned,
                   killed, nan_cycle, summaries, display_data, ckpt, n_saves, frames, video>>
    /\ UnchangedNet

\* line 205
CycleEvaluation ==
    /\ pc = "track"
    /\ TrackProgress("frame")

\* lines 207-224
SaveFrame ==
    /\ pc = "frame"
    /\ \/ /\ save_frames
          /\ index' = IF index < 0 THEN 0 ELSE index + 1
          /\ frames' = frames + 1
          /\ pc' = "save"
          /\ UNCHANGED <<exc, sess, session_vals, epoch, k, current_loss>>
       \/ /\ save_frames
          /\ Raise("FrameError")
          /\ UNCHANGED frames
       \/ /\ ~save_frames
          /\ pc' = "save"
          /\ UNCHANGED <<exc, sess, session_vals, locals, frames>>
    /\ UNCHANGED <<display_proc, spawned, killed, nan_cycle, summaries, display_data, ckpt,
                   n_saves, video>>
    /\ UnchangedNet

\* save_network (lines 354-364) called at line 227, then lines 229-230
SaveNetwork ==
    /\ pc = "save"
    /\ \/ /\ sess = "open"
          /\ ckpt' = SaverSave(saver_vars, global_step, params)
          /\ n_saves' = n_saves + 1
          /\ pc' = IF BreakCond(current_loss) THEN "final_eval" ELSE "loop"
          /\ UNCHANGED <<exc, sess, session_vals, locals>>
       \/ /\ Raise("SaveError")
          /\ UNCHANGED <<ckpt, n_saves>>
    /\ UNCHANGED <<display_proc, spawned, killed, nan_cycle, summaries, display_data,
                   frames, video>>
    /\ UnchangedNet

\* line 233
FinalEvaluation ==
    /\ pc = "final_eval"
    /\ TrackProgress("exit_session")

\* the end of the with block of line 184
CloseSession ==
    /\ pc = "exit_session"
    /\ sess' = SessionExit(sess)
    /\ global_step' = Released(sess, global_step)
    /\ params' = Released(sess, params)
    /\ adam_t' = Released(sess, adam_t)
    /\ pc' = "kill"
    /\ UNCHANGED <<exc, locals, display_proc, spawned, killed, nan_cycle, summaries,
                   display_data, ckpt, n_saves, frames, video>>
    /\ UnchangedNet

\* lines 235-237: display_proc is bound only if a process was started
KillDisplay ==
    /\ pc = "kill"
    /\ \/ /\ disp /\ display_proc # "unbound"
          /\ display_proc' = "killed"
          /\ killed' = killed + 1
          /\ pc' = "video"
          /\ UNCHANGED <<exc, sess, session_vals, locals>>
       \/ /\ disp /\ display_proc = "unbound"
          /\ Raise("UnboundLocalError")
          /\ UNCHANGED <<display_proc, killed>>
       \/ /\ ~disp
          /\ pc' = "video"
          /\ UNCHANGED <<exc, sess, session_vals, locals, display_proc, killed>>
    /\ UNCHANGED <<spawned, nan_cycle, summaries, display_data, ckpt, n_saves, frames, video>>
    /\ UnchangedNet

\* lines 239-248: dir_frames is bound only if a frame was saved
CompileVideo ==
    /\ pc = "video"
    /\ \/ /\ save_frames /\ Supported(platform) /\ index >= 0
          /\ video' = TRUE
          /\ pc' = "done"
          /\ UNCHANGED <<exc, sess, session_vals, locals>>
       \/ /\ save_frames /\ Supported(platform) /\ index < 0
          /\ Raise("UnboundLocalError")
          /\ UNCHANGED video
       \/ /\ ~(save_frames /\ Supported(platform))
          /\ pc' = "done"
          /\ UNCHANGED <<exc, sess, session_vals, locals, video>>
    /\ UNCHANGED <<display_proc, spawned, killed, nan_cycle, summaries, display_data, ckpt,
                   n_saves, frames>>
    /\ UnchangedNet

\* the graph __init__ builds for the given arguments
Constructed(a, enc, prd) ==
    LET sel == SelectActivation(a)
        gT  == EncoderT({}, enc, sel.activation)
        gTp == EncoderTp(gT.store, enc, sel.activation)
        gP  == Predictor(gTp.store, prd, sel.activation)
        st  == WithOptimizer(WithGlobalStep(gP.store))
    IN  [activation |-> sel.activation, warned |-> sel.warned, store |-> st,
         enc_t |-> gT.layers, enc_tp |-> gTp.layers, pred |-> gP.layers,
         saver_vars |-> SaverVarList(st)]

NEpochsChoices == {q * HalfCycle : q \in -1..MaxHalfCycles}

\* a network constructed with the default arguments, and a call of full_train
Init ==
    /\ act_fn = "selu"
    /\ encoding_layers_size = DefaultEncoding
    /\ predictive_layers_size = DefaultPredictive
    /\ LET net == Constructed(act_fn, encoding_layers_size, predictive_layers_size)
       IN  /\ activation = net.activation /\ warned = net.warned
           /\ store = net.store
           /\ enc_t = net.enc_t /\ enc_tp = net.enc_tp /\ pred = net.pred
           /\ saver_vars = net.saver_vars
    /\ n_epochs \in NEpochsChoices
    /\ disp \in BOOLEAN
    /\ platform \in Platforms
    /\ save_frames \in BOOLEAN
    /\ pc = "constructed"
    /\ RunInit
    /\ ExtIdle

Next ==
    \/ StartDisplay
    \/ OpenSession
    \/ InitializeVariables
    \/ InitialEvaluation
    \/ LoopTest
    \/ TrainStep
    \/ TrainReturn
    \/ CycleEvaluation
    \/ SaveFrame
    \/ SaveNetwork
    \/ FinalEvaluation
    \/ CloseSession
    \/ KillDisplay
    \/ CompileVideo

Spec == Init /\ [][Next]_vars

\* the interpreter runs the call to its end
FairSpec == Spec /\ WF_vars(Next)

-----------------------------------------------------------------------------
(* Properties *)

Terminated == pc \in {"done", "raised"}
AfterLoop == pc \in {"exit_session", "kill", "video", "done"}

\* the parameters (kernel and bias) the layers of a stack reference
ParamNames(layers) ==
    {layers[i].kernel : i \in 1..Len(layers)} \cup {layers[i].bias : i \in 1..Len(layers)}

\* C1 (as stated): no optimizer step is taken once the step counter has reached
\* n_epochs.
C1_NoStepPastNEpochs ==
    [][(pc = "train" /\ params' = params + 1) => global_step < n_epochs]_vars

\* C1 (amended): full_train terminates (it returns or raises); a training cycle is
\* started only while the step counter is below n_epochs, the counter being tested
\* between cycles only; once the loop is left track_progress is called exactly once
\* more, so that it has run once before the loop, once per cycle and once after it.
C1_Terminates ==
    /\ <>Terminated
    /\ [](pc = "train" /\ k = 0 => global_step < n_epochs)
    /\ [](pc = "final_eval" => global_step >= n_epochs /\ Len(summaries) = n_saves + 1)
    /\ [](pc = "exit_session" => global_step >= n_epochs)
    /\ [](AfterLoop => Len(summaries) = n_saves + 2)

C1_Witness ==
    pc = "done" /\ n_epochs = HalfCycle /\ summaries = <<0, number_epochs, number_epochs>>

\* C2: the step counter equals the number of optimizer steps taken; while train runs,
\* every completed block of 1000 steps has been evaluated and then checkpointed, the
\* i-th in-loop evaluation and the i-th checkpoint being taken at counter 1000*i.
C2_CounterAndCadence ==
    /\ global_step = params
    /\ pc = "train" =>
          /\ global_step = number_epochs * n_saves + k
          /\ Len(summaries) = n_saves + 1
    /\ pc = "save" => Len(summaries) = n_saves + 2 /\ global_step = number_epochs * (n_saves + 1)
    /\ \A i \in 1..n_saves : summaries[i + 1] = number_epochs * i
    /\ ckpt.written => n_saves >= 1 /\ ckpt.global_step = number_epochs * n_saves

C2_Witness == pc = "train" /\ n_saves = 1 /\ k = 1 /\ ckpt.written

\* C3: whenever full_train has returned or raised the session is not open, and every
\* optimizer step, tracking call and checkpoint happens while the session is open.
C3_SessionScoped ==
    [][/\ (\/ global_step' # global_step
           \/ params' # params
           \/ summaries' # summaries
           \/ display_data' # display_data
           \/ ckpt' # ckpt
           \/ n_saves' # n_saves) => sess = "open"
       /\ (pc' \in {"done", "raised"} => sess' # "open")
       /\ (sess' = "open" /\ sess # "open" => pc = "session")]_vars

C3_Witness == pc = "raised" /\ exc = "SaveError" /\ sess = "closed" /\ Len(summaries) = 2

\* C4 (as stated): with the display requested on a platform that is neither Windows
\* nor Linux, the display handling raises nothing: full_train is not left by an
\* UnboundLocalError.
C4_UnsupportedPlatformHarmless ==
    (disp /\ ~Supported(platform)) => ~(pc = "raised" /\ exc = "UnboundLocalError")

\* C5 (as stated): a requested display process is spawned exactly once before the
\* first evaluation and has been killed when the run has ended; when it is not
\* requested no process is spawned or killed.
C5_DisplayLifecycle ==
    /\ (disp /\ Len(summaries) > 0) => spawned = 1
    /\ (disp /\ Terminated /\ exc # "PopenError") => (spawned = 1 /\ killed = 1)
    /\ ~disp => (spawned = 0 /\ killed = 0)

C7_OnlyTrainableSaved == ckpt.written => ckpt.names = Names(Trainable(store))

\* C7 (amended): the variables save_network writes are the parameters of the encoder
\* and of the predictor together with the step counter and the optimizer state (two
\* Adam slots per parameter and the two beta powers).
C7_AllVariablesSaved ==
    ckpt.written =>
        LET prm == ParamNames(enc_t) \cup ParamNames(pred)
        IN  ckpt.names = prm \cup {GlobalStepName}
                             \cup {SlotName(n, s) : n \in prm, s \in {"Adam", "Adam_1"}}
                             \cup {BetaPower(b) : b \in {"beta1_power", "beta2_power"}}

C7_Witness == ckpt.written /\ pc = "done"

\* C8: building the second encoder copy creates no parameter, each of its layers
\* references the parameters of the same layer of the first copy, and the
\* predictor's parameters are disjoint from the encoder's.
C8_WeightSharing ==
    /\ pc \in {"predictor", "optimizer", "saver", "constructed"} =>
          /\ Len(enc_tp) = Len(enc_t)
          /\ \A i \in 1..Len(enc_t) :
                enc_tp[i].kernel = enc_t[i].kernel /\ enc_tp[i].bias = enc_t[i].bias
    /\ pc = "predictor" =>
          /\ Names(store) = ParamNames(enc_t)
          /\ Cardinality(store) = 2 * Len(enc_t)
    /\ pc \in {"optimizer", "saver", "constructed"} =>
          /\ ParamNames(pred) \cap ParamNames(enc_t) = {}
          /\ Names(Trainable(store)) = ParamNames(enc_t) \cup ParamNames(pred)
          /\ Cardinality(Trainable(store)) = 2 * (Len(enc_t) + Len(pred))

C8_Witness ==
    /\ pc = "optimizer" /\ Len(enc_tp) = 3 /\ Len(pred) = 3
    /\ \A i \in 1..3 : pred[i].name = enc_tp[i].name

\* a stack of widths w whose hidden layers use nonlinearity a and whose last
\* layer has none
StackOf(layers, w, a) ==
    /\ Len(layers) = Len(w)
    /\ \A i \in 1..Len(w) :
          /\ layers[i].units = w[i]
          /\ layers[i].activation = IF i < Len(w) THEN a ELSE "None"

\* C9 (as stated): the encoder stack and the predictor stack have the configured
\* widths in order, their hidden layers use the nonlinearity configured by act_fn
\* and their last layer has no activation.
C9_StacksUseConfiguredActivation ==
    pc \in {"optimizer", "saver", "constructed"} =>
        /\ StackOf(enc_t, encoding_layers_size \o <<dim_enc>>, activation)
        /\ StackOf(enc_tp, encoding_layers_size \o <<dim_enc>>, activation)
        /\ StackOf(pred, predictive_layers_size \o <<dim_sensor>>, activation)

\* C10: the constructor never fails; "selu" and "relu" select themselves without a
\* warning, any other act_fn selects selu with a warning.
C10_ActivationFallback ==
    /\ pc # "raised"
    /\ pc # "init" =>
          /\ activation = (IF act_fn \in {"selu", "relu"} THEN act_fn ELSE "selu")
          /\ warned <=> act_fn \notin {"selu", "relu"}
    /\ pc \in {"predictor", "optimizer", "saver", "constructed"} =>
          \A i \in 1..(Len(enc_t) - 1) : enc_t[i].activation = activation

C10_Witness == pc = "constructed" /\ act_fn = "tanh" /\ warned /\ Len(enc_t) > 1

-----------------------------------------------------------------------------
(* save(destination): the hyper-parameter record *)

MaxAttrs == 2         \* number of attributes of the network object that are drawn

\* a network constructed with the default arguments on which full_train is not running
NetworkIdle ==
    /\ act_fn = "selu"
    /\ encoding_layers_size = DefaultEncoding
    /\ predictive_layers_size = DefaultPredictive
    /\ LET net == Constructed(act_fn, encoding_layers_size, predictive_layers_size)
       IN  /\ activation = net.activation /\ warned = net.warned
           /\ store = net.store
           /\ enc_t = net.enc_t /\ enc_tp = net.enc_tp /\ pred = net.pred
           /\ saver_vars = net.saver_vars
    /\ n_epochs = 0 /\ disp = FALSE /\ platform = "Linux" /\ save_frames = FALSE
    /\ pc = "constructed"
    /\ RunInit

UnchangedNetwork == UNCHANGED <<net_vars, arg_vars, run_vars, pc, exc>>

\* the types an attribute value can have: "list_bad" is a list holding an element
\* json cannot serialise (its type is list all the same)
AttrKinds == {"ndarray", "list", "list_bad", "int", "str", "float", "object"}
Destinations == {"writable", "unwritable", "not_str"}

\* lines 373-376 for one value: an array becomes a list, a value whose type is not
\* list, int or str is deleted, any other value is kept
FilterAttr(kind) ==
    IF kind = "ndarray" THEN "list"
    ELSE IF kind \notin {"list", "list_bad", "int", "str"} THEN "deleted"
    ELSE kind

\* lines 377-378: the exception the with block raises, "none" if the record is
\* written; io is the outcome of the writes to the file system
WriteError(dest, dict, io) ==
    IF dest = "not_str" THEN "TypeError"
    ELSE IF dest = "unwritable" THEN "OSError"
    ELSE IF \E key \in DOMAIN dict : dict[key] = "list_bad" THEN "TypeError"
    ELSE IF io = "error" THEN "OSError"
    ELSE "none"

\* network_params.txt after lines 377-378: open creates the file, json.dump fills it
WrittenFile(dest, e) ==
    IF e = "none" THEN "complete"
    ELSE IF dest = "writable" THEN "partial"
    ELSE "absent"

\* (mutant) an except clause naming the file errors only
CatchesOSErrorOnly(e) == e = "OSError"

\* line 380: a bare except clause catches every exception
Catches(e) == TRUE

\* line 371
SaveCopy ==
    /\ sv.pc = "copy"
    /\ sv' = [sv EXCEPT !.pc = "filter", !.dict = sv.attrs]
    /\ UNCHANGED <<lr, af, gen>>
    /\ UnchangedNetwork

\* lines 372-376, one item of self.__dict__ per step
SaveFilter ==
    /\ sv.pc = "filter"
    /\ sv.todo # {}
    /\ LET key == CHOOSE x \in sv.todo : \A y \in sv.todo : x <= y
       IN  sv' = [sv EXCEPT !.todo = sv.todo \ {key},
                            !.dict = [sv.dict EXCEPT ![key] = FilterAttr(sv.attrs[key])]]
    /\ UNCHANGED <<lr, af, gen>>
    /\ UnchangedNetwork

\* lines 377-378
SaveWrite ==
    /\ sv.pc = "filter"
    /\ sv.todo = {}
    /\ \E io \in {"ok", "error"} :
          LET e == WriteError(sv.dest, sv.dict, io)
          IN  sv' = [sv EXCEPT !.io = io,
                               !.error = e,
                               !.file = WrittenFile(sv.dest, e),
                               !.pc = IF e = "none" THEN "end"
                                      ELSE IF Catches(e) THEN "except" ELSE "raised"]
    /\ UNCHANGED <<lr, af, gen>>
    /\ UnchangedNetwork

\* lines 380-382
SaveExcept ==
    /\ sv.pc = "except"
    /\ sv' = [sv EXCEPT !.reported = TRUE, !.ret = "False", !.pc = "returned"]
    /\ UNCHANGED <<lr, af, gen>>
    /\ UnchangedNetwork

\* the end of the function body is reached: the call returns None
SaveEnd ==
    /\ sv.pc = "end"
    /\ sv' = [sv EXCEPT !.ret = "None", !.pc = "returned"]
    /\ UNCHANGED <<lr, af, gen>>
    /\ UnchangedNetwork

InitSave ==
    /\ NetworkIdle
    /\ \E attrs \in [1..MaxAttrs -> AttrKinds], dest \in Destinations :
          sv = [pc |-> "copy", attrs |-> attrs, dest |-> dest, dict |-> attrs,
                todo |-> 1..MaxAttrs, io |-> "ok", error |-> "none", file |-> "absent",
                reported |-> FALSE, ret |-> "unset"]
    /\ lr = [pc |-> "idle"] /\ af = [pc |-> "idle"] /\ gen = [pc |-> "idle"]

NextSave ==
    \/ SaveCopy
    \/ SaveFilter
    \/ SaveWrite
    \/ SaveExcept
    \/ SaveEnd

SpecSave == InitSave /\ [][NextSave]_vars

\* C11: save never raises; it returns False, after reporting the failure, exactly
\* when writing the record failed (destination that is no string or cannot be
\* written, value json cannot serialise, error of the file system), and then only.
C11_SaveNeverRaises ==
    /\ sv.pc # "raised"
    /\ sv.pc = "returned" =>
          LET failed == \/ sv.dest # "writable"
                        \/ \E key \in 1..MaxAttrs : sv.attrs[key] = "list_bad"
                        \/ sv.io = "error"
          IN  /\ (sv.ret = "False") <=> failed
              /\ failed => sv.reported
              /\ ~failed => sv.ret = "None" /\ sv.file = "complete"

C11_Witness ==
    /\ sv.pc = "returned" /\ sv.ret = "False" /\ sv.error = "TypeError"
    /\ sv.dest = "writable"

-----------------------------------------------------------------------------
(* The learning rate: tf.train.polynomial_decay driven by global_step *)

MaxRate == 2          \* initial and final rates range over 0..MaxRate units
MaxHorizon == 3       \* decay horizons range over 1..MaxHorizon steps
MaxPower == 2         \* decay powers range over 1..MaxPower
MaxBeyond == 2        \* the schedule is followed this many steps past the horizon

RECURSIVE Pow(_, _)
Pow(b, e) == IF e = 0 THEN 1 ELSE b * Pow(b, e - 1)

Min(a, b) == IF a <= b THEN a ELSE b
Max(a, b) == IF a >= b THEN a ELSE b

\* (mutant) the step is not clamped at the horizon
PolynomialDecayUnclamped(initial, final, horizon, power, step) ==
    (initial - final) * Pow(horizon - step, power) + final * Pow(horizon, power)

\* polynomial_decay(initial, global_step, horizon, final, power) with cycle=False:
\* (initial - final) * (1 - min(step, horizon) / horizon) ^ power + final.
\* The rate is a rational number: the value is its numerator over horizon ^ power
PolynomialDecay(initial, final, horizon, power, step) ==
    (initial - final) * Pow(horizon - Min(step, horizon), power)
        + final * Pow(horizon, power)

\* self.learning_rate evaluated in a session whose global_step is step
LearningRate(param, step) ==
    PolynomialDecay(param[1], param[2], param[3], param[4], step)

\* an optimizer step advances global_step, the rate is read at the new value
ScheduleStep ==
    /\ lr.pc = "running"
    /\ lr.step < lr.param[3] + MaxBeyond
    /\ lr' = [lr EXCEPT !.step = MinimizeStep(lr.step),
                        !.previous = lr.rate,
                        !.rate = LearningRate(lr.param, MinimizeStep(lr.step))]
    /\ UNCHANGED <<sv, af, gen>>
    /\ UnchangedNetwork

\* a session is opened on a network built with learning_rate_param =
\* [initial, final, horizon, power]: global_step is 0
InitSchedule ==
    /\ NetworkIdle
    /\ \E initial \in 0..MaxRate, final \in 0..MaxRate,
          horizon \in 1..MaxHorizon, power \in 1..MaxPower :
          LET param == <<initial, final, horizon, power>>
          IN  lr = [pc |-> "running", param |-> param, step |-> 0,
                    rate |-> LearningRate(param, 0), previous |-> LearningRate(param, 0)]
    /\ sv = [pc |-> "idle"] /\ af = [pc |-> "idle"] /\ gen = [pc |-> "idle"]

NextSchedule == ScheduleStep

SpecSchedule == InitSchedule /\ [][NextSchedule]_vars

\* the unit of lr.rate: rates are numerators over horizon ^ power
RateUnit == Pow(lr.param[3], lr.param[4])

\* C12 (as stated): at step s the rate is
\* initial + (final - initial) * (min(s, horizon) / horizon) ^ power.
C12_RateFormula ==
    lr.pc = "running" =>
        lr.rate = lr.param[1] * RateUnit
                  + (lr.param[2] - lr.param[1]) * Pow(Min(lr.step, lr.param[3]), lr.param[4])

\* C12 (amended): the rate is monotone in the step, lies between initial and final,
\* equals initial at step 0 and final from the horizon on; it is
\* final + (initial - final) * (1 - min(s, horizon) / horizon) ^ power, which is the
\* stated formula when power = 1.
C12_Schedule ==
    lr.pc = "running" =>
        LET initial == lr.param[1]
            final   == lr.param[2]
            horizon == lr.param[3]
            power   == lr.param[4]
        IN  /\ Min(initial, final) * RateUnit <= lr.rate
            /\ lr.rate <= Max(initial, final) * RateUnit
            /\ lr.step = 0 => lr.rate = initial * RateUnit
            /\ lr.step >= horizon => lr.rate = final * RateUnit
            /\ initial >= final => lr.rate <= lr.previous
            /\ initial <= final => lr.rate >= lr.previous
            /\ (initial # final /\ lr.step < horizon /\ lr.step > 0) => lr.rate # lr.previous
            /\ power = 1 =>
                  lr.rate * horizon = initial * horizon * RateUnit
                                      + (final - initial) * Min(lr.step, horizon) * RateUnit
            /\ 2 * lr.step = horizon =>
                  Pow(2, power) * (lr.rate - final * RateUnit) = (initial - final) * RateUnit

C12_Witness ==
    /\ lr.pc = "running" /\ lr.param = <<2, 0, 2, 2>> /\ lr.step = 1
    /\ lr.rate = 2 /\ lr.previous = 8

-----------------------------------------------------------------------------
(* compute_weighted_affine_errors_in_P on sets of points of dimension 1 *)

NumPoints == 3        \* k, the number of points of target_set and origin_set
MaxCoord == 2         \* coordinates range over 0..MaxCoord

Points == [1..NumPoints -> 0..MaxCoord]
Weights == {0, 10}
Pairs == {pair \in (1..NumPoints) \X (1..NumPoints) : pair[1] < pair[2]}

Abs(x) == IF x < 0 THEN -x ELSE x

RECURSIVE SumOver(_, _)
SumOver(f, n) == IF n = 0 THEN 0 ELSE f[n] + SumOver(f, n - 1)

Sum(f) == SumOver(f, NumPoints)
Products(f, g) == [i \in 1..NumPoints |-> f[i] * g[i]]

\* (mutant) a regression through the origin: no intercept is fitted
FitThroughOrigin(origin, target) ==
    LET oo == Sum(Products(origin, origin))
        ot == Sum(Products(origin, target))
    IN  IF oo = 0
        THEN [coef_num |-> 0, coef_den |-> 1, intercept_num |-> 0, intercept_den |-> 1]
        ELSE [coef_num |-> ot, coef_den |-> oo, intercept_num |-> 0, intercept_den |-> 1]

\* lin_reg_model.fit(origin_set, target_set): ordinary least squares with intercept,
\* target = origin * coef_ + intercept_. The coefficient is covariance over variance;
\* when the origin points all coincide the minimum-norm solution has coefficient 0.
\* coef_ and intercept_ are rational numbers, kept as numerator and denominator
Fit(origin, target) ==
    LET variance   == NumPoints * Sum(Products(origin, origin)) - Sum(origin) * Sum(origin)
        covariance == NumPoints * Sum(Products(origin, target)) - Sum(origin) * Sum(target)
    IN  IF variance = 0
        THEN [coef_num |-> 0, coef_den |-> 1,
              intercept_num |-> Sum(target), intercept_den |-> NumPoints]
        ELSE [coef_num |-> covariance, coef_den |-> variance,
              intercept_num |-> variance * Sum(target) - covariance * Sum(origin),
              intercept_den |-> NumPoints * variance]

\* lin_reg_model.predict(origin_set): numerators over coef_den * intercept_den
Predict(model, origin) ==
    [i \in 1..NumPoints |->
        model.coef_num * model.intercept_den * origin[i]
            + model.intercept_num * model.coef_den]

FittedUnit(model) == model.coef_den * model.intercept_den

\* pdist: the distance of every unordered pair of points
Pdist(set) == [pair \in Pairs |-> Abs(set[pair[1]] - set[pair[2]])]

PdistMax(dist) == CHOOSE d \in {dist[pair] : pair \in Pairs} :
                     \A pair \in Pairs : dist[pair] <= d

\* np.mean(np.absolute(pdist_fitted - pdist_target) / pdist_target.max()
\*         * np.exp(-weight * pdist_target / pdist_target.max())).
\* The exponentials are irrational: the mean is kept as its terms, one per pair,
\* each a coefficient (numerator over unit * pdist_target.max()) times
\* exp(-exponent / pdist_target.max()). A division by pdist_target.max() = 0 gives nan
WeightedError(pdist_fitted, unit, pdist_target, weight) ==
    IF PdistMax(pdist_target) = 0
    THEN [kind |-> "nan", terms |-> <<>>]
    ELSE [kind |-> "number",
          terms |-> [pair \in Pairs |->
                       [coefficient |-> Abs(pdist_fitted[pair] - unit * pdist_target[pair]),
                        exponent    |-> weight * pdist_target[pair]]]]

\* a mean of non-negative coefficients times positive exponentials is 0 exactly
\* when every coefficient is 0
IsZero(error) ==
    /\ error.kind = "number"
    /\ \A pair \in Pairs : error.terms[pair].coefficient = 0

AffineFit ==
    /\ af.pc = "fit"
    /\ af' = [af EXCEPT !.pc = "predict", !.model = Fit(af.origin_set, af.target_set)]
    /\ UNCHANGED <<sv, lr, gen>>
    /\ UnchangedNetwork

AffinePredict ==
    /\ af.pc = "predict"
    /\ af' = [af EXCEPT !.pc = "error", !.fitted = Predict(af.model, af.origin_set)]
    /\ UNCHANGED <<sv, lr, gen>>
    /\ UnchangedNetwork

AffineError ==
    /\ af.pc = "error"
    /\ af' = [af EXCEPT !.pc = "returned",
                        !.weighted_error =
                            WeightedError(Pdist(af.fitted), FittedUnit(af.model),
                                          Pdist(af.target_set), af.weight)]
    /\ UNCHANGED <<sv, lr, gen>>
    /\ UnchangedNetwork

InitAffine ==
    /\ NetworkIdle
    /\ \E target_set \in Points, origin_set \in Points, weight \in Weights :
          af = [pc |-> "fit", target_set |-> target_set, origin_set |-> origin_set,
                weight |-> weight,
                model |-> [coef_num |-> 0, coef_den |-> 1,
                           intercept_num |-> 0, intercept_den |-> 1],
                fitted |-> [i \in 1..NumPoints |-> 0],
                weighted_error |-> [kind |-> "unset", terms |-> <<>>]]
    /\ sv = [pc |-> "idle"] /\ lr = [pc |-> "idle"] /\ gen = [pc |-> "idle"]

NextAffine == AffineFit \/ AffinePredict \/ AffineError

SpecAffine == InitAffine /\ [][NextAffine]_vars

\* image = target * num / den + b for some b, the slope num / den given
IsImageWithSlope(image, target, num, den) ==
    \A j \in 1..NumPoints : den * (image[j] - image[1]) = num * (target[j] - target[1])

Slopes == ((-MaxCoord)..MaxCoord) \X (1..MaxCoord)

IsAffineImage(image, target) ==
    \E slope \in Slopes : IsImageWithSlope(image, target, slope[1], slope[2])

IsInjectiveAffineImage(image, target) ==
    \E slope \in Slopes : slope[1] # 0 /\ IsImageWithSlope(image, target, slope[1], slope[2])

NotAllCoincident(set) == \E i, j \in 1..NumPoints : set[i] # set[j]

-----------------------------------------------------------------------------
(* generate_sensorimotor_data.py: generate_sensorimotor_data *)

MaxTransitions == 2   \* k, the number of transitions of the dataset

Transitions == 1..MaxTransitions
ExploTypes == {"MEM", "MM", "MME", "other"}

\* np.isnan(sensations[:, 0]) of each transition, as the environment returned it
NanColumns == [Transitions -> BOOLEAN]

\* len(np.argwhere(np.isnan(sensations_t[:, 0]) & np.isnan(sensations_tp[:, 0]))[:, 0]) > 0
NotAllValid(sensations_t, sensations_tp) ==
    \E i \in Transitions : sensations_t[i] /\ sensations_tp[i]

\* check_savability: a trial dump of the dictionary; OverflowError gives False,
\* any other error of the dump propagates
CheckSavability ==
    /\ gen.pc = "check_savability"
    /\ \E dump \in {"ok", "OverflowError", "OSError"} :
          gen' = IF dump = "ok" THEN [gen EXCEPT !.pc = "shifts"]
                 ELSE IF dump = "OverflowError"
                 THEN [gen EXCEPT !.pc = "returned", !.ret = "False",
                                  !.reported = "too large to pickle"]
                 ELSE [gen EXCEPT !.pc = "raised"]
    /\ UNCHANGED <<sv, lr, af>>
    /\ UnchangedNetwork

\* the shifts of the environment by exploration type; any other type prints an
\* error and leaves shifts_t unbound, which raises at its first use
GenerateShifts ==
    /\ gen.pc = "shifts"
    /\ gen' = IF gen.explo_type \in {"MEM", "MM", "MME"}
              THEN [gen EXCEPT !.pc = "sensations"]
              ELSE [gen EXCEPT !.pc = "raised", !.reported = "wrong type of exploration"]
    /\ UNCHANGED <<sv, lr, af>>
    /\ UnchangedNetwork

\* environment.get_sensation_at_position at t and at tp
GetSensations ==
    /\ gen.pc = "sensations"
    /\ \E sensations_t \in NanColumns, sensations_tp \in NanColumns :
          gen' = [gen EXCEPT !.pc = "validate",
                             !.sensations_t = sensations_t,
                             !.sensations_tp = sensations_tp]
    /\ UNCHANGED <<sv, lr, af>>
    /\ UnchangedNetwork

ValidateSensations ==
    /\ gen.pc = "validate"
    /\ gen' = IF NotAllValid(gen.sensations_t, gen.sensations_tp)
              THEN [gen EXCEPT !.pc = "returned", !.ret = "False",
                               !.reported = "not all sensations are valid"]
              ELSE [gen EXCEPT !.pc = "save"]
    /\ UNCHANGED <<sv, lr, af>>
    /\ UnchangedNetwork

\* the dictionary is filled and save_dictionary is called; its result is dropped
\* and the function falls off its end
SaveDictionary ==
    /\ gen.pc = "save"
    /\ \E dump \in {"ok", "error"} :
          gen' = [gen EXCEPT !.pc = "returned", !.ret = "None",
                             !.file = IF dump = "ok" THEN "written" ELSE "partial",
                             !.reported = IF dump = "ok" THEN gen.reported
                                          ELSE "saving the data to disk failed"]
    /\ UNCHANGED <<sv, lr, af>>
    /\ UnchangedNetwork

InitGenerate ==
    /\ NetworkIdle
    /\ \E explo_type \in ExploTypes :
          gen = [pc |-> "check_savability", explo_type |-> explo_type,
                 sensations_t |-> [i \in Transitions |-> FALSE],
                 sensations_tp |-> [i \in Transitions |-> FALSE],
                 file |-> "absent", reported |-> "nothing", ret |-> "unset"]
    /\ sv = [pc |-> "idle"] /\ lr = [pc |-> "idle"] /\ af = [pc |-> "idle"]

NextGenerate ==
    \/ CheckSavability
    \/ GenerateShifts
    \/ GetSensations
    \/ ValidateSensations
    \/ SaveDictionary

SpecGenerate == InitGenerate /\ [][NextGenerate]_vars

\* C14: the dataset is saved only when every transition has a valid sensation at t
\* and at tp; when a transition lacks one, the function has reported the error and
\* returned False and no dataset file was written.
C14_SavedOnlyWhenAllValid ==
    LET lacking == \E i \in Transitions : gen.sensations_t[i] \/ gen.sensations_tp[i]
    IN  /\ gen.file # "absent" => ~lacking
        /\ (gen.pc = "returned" /\ lacking) =>
              /\ gen.ret = "False"
              /\ gen.reported = "not all sensations are valid"
              /\ gen.file = "absent"

-----------------------------------------------------------------------------
(* Properties of the evaluations and checkpoints of full_train *)

\* the positions of full_train at which track_progress is called
TrackCalls == {"first_eval", "track", "final_eval"}

\* C15: a call of track_progress leaves the parameters, the optimizer state, the step
\* counter and the checkpoint unchanged; a completed call appends exactly one telemetry
\* entry keyed by the step counter and overwrites the snapshot with a record whose
\* step is that counter; the parameters change only by one optimizer step at a time
\* (or are released with the session).
C15_TrackProgressFrame ==
    [][/\ pc \in TrackCalls =>
             /\ ckpt' = ckpt /\ n_saves' = n_saves
             /\ saver_vars' = saver_vars /\ store' = store
             /\ pc' # "raised" =>
                   /\ params' = params /\ adam_t' = adam_t /\ global_step' = global_step
                   /\ summaries' = Append(summaries, global_step)
                   /\ display_data' = global_step
             /\ pc' = "raised" =>
                   /\ display_data' = display_data
                   /\ summaries' \in {summaries, Append(summaries, global_step)}
                   /\ sess' # "open"
       /\ (params' # params \/ adam_t' # adam_t) =>
             \/ /\ pc = "train" /\ pc' = "train"
                /\ params' = params + 1 /\ adam_t' = adam_t + 1
                /\ global_step' = global_step + 1
             \/ sess = "open" /\ sess' # "open"]_vars

C15_Witness ==
    /\ pc = "frame" /\ sess = "open"
    /\ summaries = <<0, number_epochs>> /\ display_data = number_epochs
    /\ params = number_epochs /\ global_step = number_epochs /\ ~ckpt.written


\* the smallest multiple of 1000 that is >= max(n, 0)
FinalCounter(n) == number_epochs * ((Max(n, 0) + number_epochs - 1) \div number_epochs)

\* C16: when full_train returns, the step counter is the smallest multiple of 1000
\* that is >= max(n_epochs, 0), above n_epochs when n_epochs is not a multiple of
\* 1000; track_progress has been called that number / 1000 + 2 times, the last two
\* calls at the same, final, counter value.
C16_FinalCounter ==
    /\ pc = "exit_session" =>
          /\ global_step = FinalCounter(n_epochs)
          /\ params = FinalCounter(n_epochs)
          /\ n_epochs % number_epochs # 0 => global_step > n_epochs
    /\ AfterLoop =>
          LET calls == Len(summaries)
          IN  /\ calls = FinalCounter(n_epochs) \div number_epochs + 2
              /\ summaries[calls] = FinalCounter(n_epochs)
              /\ summaries[calls - 1] = FinalCounter(n_epochs)
              /\ display_data = FinalCounter(n_epochs)

C16_Witness ==
    /\ pc = "done" /\ n_epochs = 3 * HalfCycle
    /\ summaries = <<0, number_epochs, 2 * number_epochs, 2 * number_epochs>>


\* C17 (as stated): whenever full_train returns normally a checkpoint has been
\* written during the run, taken at the final step counter value, for every
\* n_epochs >= 0, n_epochs = 0 included.
C17_CheckpointOnReturn ==
    (pc = "done" /\ n_epochs >= 0) =>
        /\ ckpt.written
        /\ ckpt.global_step = summaries[Len(summaries)]

\* C17 (amended): whenever full_train returns normally with n_epochs >= 1, a
\* checkpoint has been written during the run and the last one was taken at the
\* final step counter value, with no optimizer step after it; with n_epochs <= 0
\* no checkpoint is written.
C17_CheckpointWhenTrained ==
    /\ (AfterLoop /\ n_epochs >= 1) =>
          /\ ckpt.written /\ n_saves >= 1
          /\ ckpt.global_step = FinalCounter(n_epochs)
          /\ ckpt.params = FinalCounter(n_epochs)
          /\ ckpt.global_step = summaries[Len(summaries)]
          /\ pc = "exit_session" => params = ckpt.params /\ global_step = ckpt.global_step
    /\ n_epochs <= 0 => ~ckpt.written /\ n_saves = 0

C17_Witness ==
    /\ pc = "done" /\ n_epochs = HalfCycle
    /\ ckpt.written /\ ckpt.global_step = number_epochs /\ n_saves = 1

====
